---- MODULE Spec2Model ----
(***************************************************************************)
(* The per-episode pipeline of src/src/Episode.py: Episode.download and    *)
(* the methods it calls (init_imgsList, downloadImg, saveToPDF,            *)
(* saveToFolder, saveTo7z, clearAfterSave), together with isDownloaded.    *)
(* The network, the file system and the libraries (requests, PIL, PyPDF2,  *)
(* py7zr, retrying) are the environment: every call that can raise does    *)
(* so nondeterministically.                                                *)
(***************************************************************************)
EXTENDS Integers, Sequences, FiniteSets, TLC

\* ------------------------------------------------------------------ bounds
\* Largest number of pages GetImageIndex returns for the episode.
MaxPages == 2
\* Largest number of attempts a time-bounded retry (stop_max_delay) gets to
\* make before its deadline passes.
MaxNetTries == 2

\* ------------------------------------------------------- program constants
\* @retry(stop_max_attempt_number=5)
MaxAttempts == 5
\* res.status_code != 200
HttpOk == 200
\* rate = -1, the failure sentinel of the progress channel.
Sentinel == -1

SaveMethods == {"PDF", "Folder", "7z"}

\* ------------------------------------------------------------------ values
PathIds == 1..MaxPages
\* The bytes the server holds for the page at remote path p.
Content(p) == p
\* The bytes of a transfer that was cut short or corrupted.
Truncated == 0
Bodies == {Truncated} \cup {Content(p) : p \in PathIds}
\* hashlib.md5(body).hexdigest(): a fixed function from bodies to digests,
\* here a table over the bounded set of bodies.
MD5(body) == 1000 + ((body * 7) % 5)
\* An Etag header that is the digest of no body.
BogusEtag == 999
\* The token the server issues for path p.
TokenOf(p) == 10 + p

\* A file of the file system: absent, partially written (created or
\* truncated by a write that then failed), fully written by this run, or
\* left by an earlier run ("old"). A temp file also records the Etag header
\* of the response its bytes came from.
NoFile == [st |-> "absent", body |-> Truncated]
PartialFile == [st |-> "partial", body |-> Truncated]
OldFile == [st |-> "old", body |-> Truncated]
FullFile(body) == [st |-> "full", body |-> body]
NoTmp == [st |-> "absent", body |-> Truncated, etag |-> BogusEtag]
PartialTmp(res) == [st |-> "partial", body |-> res.body, etag |-> res.etag]
FullTmp(res) == [st |-> "full", body |-> res.body, etag |-> res.etag]
\* os.path.exists
Exists(f) == f.st # "absent"

\* The page lists GetImageIndex may return: n distinct paths, in ascending
\* or in descending order of their ids.
Ascending(n) == [i \in 1..n |-> i]
Descending(n) == [i \in 1..n |-> n + 1 - i]
PathLists == UNION {{Ascending(n), Descending(n)} : n \in 0..MaxPages}

\* The ImageToken response for the posted list of paths: one {url, token}
\* entry per path, aligned by position.
TokenResponse(paths) ==
  [i \in 1..Len(paths) |-> [url |-> paths[i], token |-> TokenOf(paths[i])]]

\* A faulty variant of ImgUrl: the token is left out.
ImgUrlNoToken(img) == <<img.url>>
\* img_url = f"{img['url']}?token={img['token']}"
ImgUrl(img) == <<img.url, "?token=", img.token>>

\* What a GET of img_url can produce: a transport error, or a response with
\* a status, an Etag header and a body.
TransportError == [err |-> TRUE, status |-> 0, etag |-> BogusEtag, body |-> Truncated]
Responses(img_url) ==
  {TransportError} \cup
  {[err |-> FALSE, status |-> s, etag |-> e, body |-> b] :
     s \in {HttpOk, 500},
     e \in {MD5(Content(img_url[1])), BogusEtag},
     b \in {Content(img_url[1]), Truncated}}

\* A faulty variant of Accepted: any 200 response is accepted.
AcceptedNoChecksum(res) == ~res.err /\ res.status = HttpOk
\* downloadImg._ (the GET) returns res.content iff no RequestException was
\* raised, the status is 200 and the Etag equals the MD5 of the content.
Accepted(res) ==
  /\ ~res.err
  /\ res.status = HttpOk
  /\ res.etag = MD5(res.body)

\* A faulty variant of ShouldRetry: one attempt more is made.
ShouldRetryOnceMore(n) == n <= MaxAttempts
\* @retry(stop_max_attempt_number=5): after the n-th attempt failed, the
\* function is called again iff fewer than 5 attempts were made.
ShouldRetry(n) == n < MaxAttempts

\* A faulty variant of Rate: the share of the pages before this one.
RateOfPrevious(i, n) == ((i - 1) * 100) \div n
\* int((index / len(self.imgs_token)) * 100); exact for the lengths used here.
Rate(i, n) == (i * 100) \div n

\* The ordinals an episode may have (self.ord).
Ords == {12}
\* return None
NonePath == <<>>
\* f"{n}" of a natural number: its decimal digits.
DecimalDigit(d) == <<"0", "1", "2", "3", "4", "5", "6", "7", "8", "9">>[d + 1]
RECURSIVE Str(_)
Str(n) ==
  IF n < 10 THEN <<DecimalDigit(n)>>
  ELSE Str(n \div 10) \o <<DecimalDigit(n % 10)>>
\* path_to_save = os.path.join(self.save_path, f"{self.ord}_{index}.jpg"),
\* within the save directory.
PathToSave(o, i) == Str(o) \o <<"_">> \o Str(i) \o <<".jpg">>
\* The temp paths of the save directory.
TmpPaths == {PathToSave(o, i) : o \in Ords, i \in 1..MaxPages}

\* A faulty variant of LoopStep: the loop goes on to the next page when a
\* page failed.
LoopStepNoAbort(img_path, i, n) ==
  IF img_path = NonePath
  THEN [pc |-> IF i < n THEN "fetch" ELSE "open", emit |-> Sentinel, keep |-> FALSE]
  ELSE [pc |-> IF i < n THEN "fetch" ELSE "open", emit |-> Rate(i, n), keep |-> TRUE]
\* The loop body of download after downloadImg returned: on None emit the
\* sentinel, clear and return; else keep the path, emit the rate and go on.
LoopStep(img_path, i, n) ==
  IF img_path = NonePath
  THEN [pc |-> "clear", emit |-> Sentinel, keep |-> FALSE]
  ELSE [pc |-> IF i < n THEN "fetch" ELSE "open", emit |-> Rate(i, n), keep |-> TRUE]

\* A faulty variant of AppendPath: the path is inserted at the front.
PrependPath(paths, p) == <<p>> \o paths
\* imgs_path.append(img_path)
AppendPath(paths, p) == Append(paths, p)

VARIABLES
  save_method,  \* self.save_method
  ord,          \* self.ord
  pc,           \* position in the running operation
  index,        \* the loop variable of download's page loop / of a save loop
  attempt,      \* attempts made so far by the running @retry
  imgs_urls,    \* init_imgsList: imgs_urls
  imgs_token,   \* self.imgs_token ([isNone |-> TRUE, ...] is None)
  url,          \* download: img_url; main.py, downloadImg: the parameter url
  img,          \* downloadImg: the accepted response (img = res.content);
                \* main.py: the last response (file)
  imgs_path,    \* download: imgs_path
  temp_imgs,    \* download: temp_imgs
  it,           \* clearAfterSave: position of the list iterator
  tmp,          \* file system: the temp files {ord}_{index}.jpg, by path
  pdf,          \* file system: epi_path_pdf
  folder,       \* file system: epi_path_folder
  z7,           \* file system: epi_path_7z
  progress,     \* rate_progress: the rates emitted so far
  msgs,         \* mainGUI.message_box: the failures reported so far
  netlog,       \* the kinds of network calls made so far
  stages,       \* the stages of download() entered so far
  pre,          \* the file system when download() was called
  rm_fails,     \* clearAfterSave: how often the deletion of each path failed
  episode,      \* Episode.__init__: episode["short_title"], episode["title"]
  title,        \* Episode.__init__: self.title
  episodes,     \* Comic: self.episodes
  batch,        \* splitThreads: the loop variable i of the generator
  epis,         \* Comic.fetch: the batch the generator yielded
  nthreads,     \* Comic.fetch: len(threads), the threads started of the batch
  joined,       \* Comic.fetch: the threads of the batch joined so far
  alive,        \* the episodes whose download thread is running
  starts,       \* how often a thread was started for each episode
  epiTask       \* Progress: the completed count of epiTask

\* The variables of Episode.__init__ and of Comic.fetch, which a download
\* does not touch.
outside == <<episode, title, episodes, batch, epis, nthreads, joined, alive,
             starts, epiTask>>
\* The variables that one step of a download at most changes.
other == <<rm_fails, outside>>

vars == <<save_method, ord, pc, index, attempt, imgs_urls, imgs_token, url,
          img, imgs_path, temp_imgs, it, tmp, pdf, folder, z7, progress, msgs,
          netlog, stages, pre, other>>

\* ------------------------------------------------------------ file system
NoPdf == [st |-> "absent", pages |-> <<>>]
OldPdf == [st |-> "old", pages |-> <<>>]
FileNames == 1..MaxPages
NoFiles == [k \in FileNames |-> NoFile]
NoFolder == [st |-> "absent", files |-> NoFiles]
EmptyFolder == [st |-> "dir", files |-> NoFiles]
OldFolder == [st |-> "dir", files |-> [k \in FileNames |-> OldFile]]
No7z == [st |-> "absent", entries |-> NoFiles]
Old7z == [st |-> "old", entries |-> NoFiles]

\* self.epi_path: the canonical path of the configured save method, as the
\* file system object at that path.
epi_path ==
  IF save_method = "PDF" THEN pdf
  ELSE IF save_method = "Folder" THEN folder
  ELSE z7

\* The object at the canonical path when download() was called.
pre_epi_path ==
  IF save_method = "PDF" THEN pre.pdf
  ELSE IF save_method = "Folder" THEN pre.folder
  ELSE pre.z7

\* Episode.isDownloaded
isDownloaded == Exists(pdf) \/ Exists(folder) \/ Exists(z7)

\* The number of pages of the episode, len(self.imgs_token).
NumPages == Len(imgs_token.val)

\* ------------------------------------------------------------------- Init
\* No Episode is being constructed and Comic.fetch is not running.
OutsideIdle ==
  /\ episode = [short_title |-> <<>>, title |-> <<>>]
  /\ title = <<>>
  /\ episodes = <<>>
  /\ batch = 0
  /\ epis = <<>>
  /\ nthreads = 0
  /\ joined = 0
  /\ alive = {}
  /\ starts = <<>>
  /\ epiTask = 0

\* The Episode as constructed, download() about to make its first call, over
\* a save directory that may hold the artifacts of earlier runs.
Init ==
  /\ save_method \in SaveMethods
  /\ ord \in Ords
  /\ pc = "index"
  /\ index = 1
  /\ attempt = 1
  /\ imgs_urls = <<>>
  /\ imgs_token = [isNone |-> TRUE, val |-> <<>>]
  /\ url = <<>>
  /\ img = TransportError
  /\ imgs_path = <<>>
  /\ temp_imgs = <<>>
  /\ it = 0
  /\ tmp = [p \in TmpPaths |-> NoTmp]
  /\ pdf \in {NoPdf, OldPdf}
  /\ folder \in {NoFolder, EmptyFolder, OldFolder}
  /\ z7 \in {No7z, Old7z}
  /\ progress = <<>>
  /\ msgs = <<>>
  /\ netlog = {}
  /\ stages = {"init"}
  /\ pre = [pdf |-> pdf, folder |-> folder, z7 |-> z7]
  /\ rm_fails = [p \in TmpPaths |-> 0]
  /\ OutsideIdle

FsUnchanged ==
  UNCHANGED <<tmp, pdf, folder, z7, pre, save_method, ord, other, url>>

\* ---------------------------------------------------------- init_imgsList
\* The POST to GetImageIndex answers 200: imgs_urls is the list of paths.
GetImageIndexOk ==
  /\ pc = "index"
  /\ \E paths \in PathLists : imgs_urls' = paths
  /\ pc' = "token"
  /\ attempt' = 1
  /\ netlog' = netlog \cup {"GetImageIndex"}
  /\ FsUnchanged
  /\ UNCHANGED <<index, imgs_token, img, imgs_path, temp_imgs, it, progress,
                 msgs, stages>>

\* The POST fails (RequestException or status != 200) before the deadline of
\* stop_max_delay: it is made again.
GetImageIndexRetry ==
  /\ pc = "index"
  /\ attempt < MaxNetTries
  /\ attempt' = attempt + 1
  /\ netlog' = netlog \cup {"GetImageIndex"}
  /\ FsUnchanged
  /\ UNCHANGED <<pc, index, imgs_urls, imgs_token, img, imgs_path, temp_imgs,
                 it, progress, msgs, stages>>

\* The POST fails and the deadline has passed: the failure is reported and
\* init_imgsList returns False.
GetImageIndexGiveUp ==
  /\ pc = "index"
  /\ msgs' = Append(msgs, "index")
  /\ pc' = "init_failed"
  /\ netlog' = netlog \cup {"GetImageIndex"}
  /\ FsUnchanged
  /\ UNCHANGED <<index, attempt, imgs_urls, imgs_token, img, imgs_path,
                 temp_imgs, it, progress, stages>>

\* The POST to ImageToken answers 200: self.imgs_token is set, init_imgsList
\* returns True and download enters its page loop.
ImageTokenOk ==
  /\ pc = "token"
  /\ imgs_token' = [isNone |-> FALSE, val |-> TokenResponse(imgs_urls)]
  /\ pc' = IF Len(imgs_urls) = 0 THEN "open" ELSE "fetch"
  /\ url' = IF Len(imgs_urls) = 0 THEN url ELSE ImgUrl(imgs_token'.val[1])
  /\ index' = 1
  /\ attempt' = 1
  /\ netlog' = netlog \cup {"ImageToken"}
  /\ stages' = stages \cup {"pages"}
  /\ UNCHANGED <<tmp, pdf, folder, z7, pre, save_method, ord, other>>
  /\ UNCHANGED <<imgs_urls, img, imgs_path, temp_imgs, it, progress, msgs>>

ImageTokenRetry ==
  /\ pc = "token"
  /\ attempt < MaxNetTries
  /\ attempt' = attempt + 1
  /\ netlog' = netlog \cup {"ImageToken"}
  /\ FsUnchanged
  /\ UNCHANGED <<pc, index, imgs_urls, imgs_token, img, imgs_path, temp_imgs,
                 it, progress, msgs, stages>>

ImageTokenGiveUp ==
  /\ pc = "token"
  /\ msgs' = Append(msgs, "token")
  /\ pc' = "init_failed"
  /\ netlog' = netlog \cup {"ImageToken"}
  /\ FsUnchanged
  /\ UNCHANGED <<index, attempt, imgs_urls, imgs_token, img, imgs_path,
                 temp_imgs, it, progress, stages>>

\* download, lines 200-211: init_imgsList returned False, the sentinel is
\* emitted, and the code goes on to enumerate(self.imgs_token), which raises
\* TypeError when self.imgs_token is None.
DownloadInitFailed ==
  /\ pc = "init_failed"
  /\ progress' = Append(progress, Sentinel)
  /\ IF imgs_token.isNone
     THEN pc' = "crashed" /\ UNCHANGED <<stages, url>>
     ELSE /\ pc' = IF NumPages = 0 THEN "open" ELSE "fetch"
          /\ url' = IF NumPages = 0 THEN url ELSE ImgUrl(imgs_token.val[1])
          /\ stages' = stages \cup {"pages"}
  /\ index' = 1
  /\ attempt' = 1
  /\ UNCHANGED <<tmp, pdf, folder, z7, pre, save_method, ord, other>>
  /\ UNCHANGED <<imgs_urls, imgs_token, img, imgs_path, temp_imgs, it, msgs,
                 netlog>>

\* ------------------------------------------------------------ downloadImg
\* What download does with the value downloadImg returned for page index.
Looped(img_path) ==
  LET r == LoopStep(img_path, index, NumPages) IN
  /\ pc' = r.pc
  /\ progress' = Append(progress, r.emit)
  /\ imgs_path' = IF r.keep THEN AppendPath(imgs_path, img_path) ELSE imgs_path
  /\ index' = IF r.pc = "fetch" THEN index + 1 ELSE index
  /\ url' = IF r.pc = "fetch" THEN ImgUrl(imgs_token.val[index + 1]) ELSE url
  /\ attempt' = 1
  /\ stages' = IF r.pc = "clear" THEN stages \cup {"clear"} ELSE stages

\* What the log of network calls notes of a response: that its Etag was not
\* the MD5 of its body.
Seen(res) ==
  IF ~res.err /\ res.etag # MD5(res.body) THEN {"mismatch"} ELSE {}

\* requests.get(img_url) gives a response the code accepts: img is its body.
FetchOk ==
  /\ pc = "fetch"
  /\ \E res \in Responses(url) :
       /\ Accepted(res)
       /\ img' = res
  /\ pc' = "write"
  /\ attempt' = 1
  /\ netlog' = netlog \cup {"GET"}
  /\ FsUnchanged
  /\ UNCHANGED <<index, imgs_urls, imgs_token, imgs_path, temp_imgs, it,
                 progress, msgs, stages>>

\* The GET fails (transport error, status != 200 or checksum mismatch) before
\* the deadline: it is made again.
FetchRetry ==
  /\ pc = "fetch"
  /\ \E res \in Responses(url) :
       /\ ~Accepted(res)
       /\ netlog' = netlog \cup {"GET"} \cup Seen(res)
  /\ attempt < MaxNetTries
  /\ attempt' = attempt + 1
  /\ FsUnchanged
  /\ UNCHANGED <<pc, index, imgs_urls, imgs_token, img, imgs_path, temp_imgs,
                 it, progress, msgs, stages>>

\* The GET fails and the deadline has passed: the failure is reported,
\* downloadImg returns None.
FetchGiveUp ==
  /\ pc = "fetch"
  /\ \E res \in Responses(url) :
       /\ ~Accepted(res)
       /\ netlog' = netlog \cup {"GET"} \cup Seen(res)
  /\ msgs' = Append(msgs, "fetch")
  /\ Looped(NonePath)
  /\ UNCHANGED <<tmp, pdf, folder, z7, pre, save_method, ord, other>>
  /\ UNCHANGED <<imgs_urls, imgs_token, img, temp_imgs, it>>

\* open(path_to_save, "wb") and f.write(img) succeed: downloadImg returns the
\* path.
WriteOk ==
  /\ pc = "write"
  /\ tmp' = [tmp EXCEPT ![PathToSave(ord, index)] = FullTmp(img)]
  /\ Looped(PathToSave(ord, index))
  /\ UNCHANGED <<pdf, folder, z7, pre, save_method, ord, other>>
  /\ UNCHANGED <<imgs_urls, imgs_token, img, temp_imgs, it, msgs, netlog>>

\* The write raises OSError, before the file was opened (the file is as it
\* was) or after (the file is left created and incomplete). After the 5th
\* failure it is reported and downloadImg returns None.
WriteFail ==
  /\ pc = "write"
  /\ \E left \in {tmp[PathToSave(ord, index)], PartialTmp(img)} :
       tmp' = [tmp EXCEPT ![PathToSave(ord, index)] = left]
  /\ IF ShouldRetry(attempt)
     THEN /\ attempt' = attempt + 1
          /\ UNCHANGED <<pc, index, url, imgs_path, progress, msgs, stages>>
     ELSE /\ msgs' = Append(msgs, "write")
          /\ Looped(NonePath)
  /\ UNCHANGED <<pdf, folder, z7, pre, save_method, ord, other>>
  /\ UNCHANGED <<imgs_urls, imgs_token, img, temp_imgs, it, netlog>>


\* ------------------------------------------------- the bounded-count retry
\* A function under @retry(stop_max_attempt_number=5) raised an exception of
\* the given kind. retrying calls it again whatever the exception; after the
\* 5th attempt it re-raises the exception, which the caller's `except OSError`
\* handles (reporting `label` and going on at `next`) only if it is an OSError.
Failed(kind, restart, label, next) ==
  IF ShouldRetry(attempt)
  THEN /\ pc' = restart
       /\ attempt' = attempt + 1
       /\ UNCHANGED <<msgs, stages>>
  ELSE /\ attempt' = 1
       /\ IF kind = "OSError"
          THEN /\ pc' = next
               /\ msgs' = Append(msgs, label)
               /\ stages' = IF next = "clear" THEN stages \cup {"clear"} ELSE stages
          ELSE /\ pc' = "crashed"
               /\ UNCHANGED <<msgs, stages>>

\* -------------------------------------------------- download, lines 236-258
\* The first statement of the configured save method.
SaveEntry == IF save_method = "PDF" THEN "pdf_save" ELSE "folder_mk"

\* temp_imgs = [Image.open(x) for x in imgs_path], converted to RGB, and the
\* call of the save method.
OpenImages ==
  /\ pc = "open"
  /\ temp_imgs' = [k \in 1..Len(imgs_path) |-> tmp[imgs_path[k]].body]
  /\ pc' = SaveEntry
  /\ index' = 1
  /\ attempt' = 1
  /\ stages' = stages \cup {"save"}
  /\ FsUnchanged
  /\ UNCHANGED <<imgs_urls, imgs_token, img, imgs_path, it, progress, msgs,
                 netlog>>

\* Image.open raises on a temp file (download does not handle it).
OpenImagesFail ==
  /\ pc = "open"
  /\ Len(imgs_path) > 0
  /\ pc' = "crashed"
  /\ FsUnchanged
  /\ UNCHANGED <<index, attempt, imgs_urls, imgs_token, img, imgs_path,
                 temp_imgs, it, progress, msgs, netlog, stages>>

\* -------------------------------------------------------------- saveToPDF
\* temp_imgs[0].save(epi_path_pdf, save_all=True, append_images=temp_imgs[1:])
PdfSaveOk ==
  /\ pc = "pdf_save"
  /\ Len(temp_imgs) > 0
  /\ pdf' = [st |-> "nometa", pages |-> <<Head(temp_imgs)>> \o Tail(temp_imgs)]
  /\ pc' = "pdf_read"
  /\ UNCHANGED <<tmp, folder, z7, pre, save_method, ord, other, url>>
  /\ UNCHANGED <<index, attempt, imgs_urls, imgs_token, img, imgs_path,
                 temp_imgs, it, progress, msgs, netlog, stages>>

\* The save raises: IndexError when there is no page; else OSError, with the
\* file as it was or left incomplete.
PdfSaveFail ==
  /\ pc = "pdf_save"
  /\ IF Len(temp_imgs) = 0
     THEN /\ Failed("IndexError", "pdf_save", "pdf", "clear")
          /\ UNCHANGED pdf
     ELSE /\ Failed("OSError", "pdf_save", "pdf", "clear")
          /\ \E left \in {pdf, [st |-> "partial", pages |-> <<>>]} : pdf' = left
  /\ UNCHANGED <<tmp, folder, z7, pre, save_method, ord, other, url>>
  /\ UNCHANGED <<index, imgs_urls, imgs_token, img, imgs_path, temp_imgs, it,
                 progress, netlog>>

\* open(epi_path_pdf, "rb"), PdfReader, append_pages_from_reader, add_metadata
PdfReadOk ==
  /\ pc = "pdf_read"
  /\ pc' = "pdf_write"
  /\ FsUnchanged
  /\ UNCHANGED <<index, attempt, imgs_urls, imgs_token, img, imgs_path,
                 temp_imgs, it, progress, msgs, netlog, stages>>

\* Reading the document back raises: OSError, or an error of PyPDF2.
PdfReadFail ==
  /\ pc = "pdf_read"
  /\ \E kind \in {"OSError", "PdfReadError"} :
       Failed(kind, "pdf_save", "pdf", "clear")
  /\ FsUnchanged
  /\ UNCHANGED <<index, imgs_urls, imgs_token, img, imgs_path, temp_imgs, it,
                 progress, netlog>>

\* open(epi_path_pdf, "wb") and pdf_writer.write(f): the document with its
\* metadata.
PdfWriteOk ==
  /\ pc = "pdf_write"
  /\ pdf' = [st |-> "full", pages |-> pdf.pages]
  /\ pc' = "clear"
  /\ attempt' = 1
  /\ stages' = stages \cup {"clear"}
  /\ UNCHANGED <<tmp, folder, z7, pre, save_method, ord, other, url>>
  /\ UNCHANGED <<index, imgs_urls, imgs_token, img, imgs_path, temp_imgs, it,
                 progress, msgs, netlog>>

\* The rewrite raises OSError, before the file was opened for writing or
\* after it was truncated.
PdfWriteFail ==
  /\ pc = "pdf_write"
  /\ \E left \in {pdf, [st |-> "partial", pages |-> <<>>]} : pdf' = left
  /\ Failed("OSError", "pdf_save", "pdf", "clear")
  /\ UNCHANGED <<tmp, folder, z7, pre, save_method, ord, other, url>>
  /\ UNCHANGED <<index, imgs_urls, imgs_token, img, imgs_path, temp_imgs, it,
                 progress, netlog>>


\* ----------------------------------------------------------- saveToFolder
\* Where saveToFolder returns to: download (then clearAfterSave) or saveTo7z.
FolderExit == IF save_method = "Folder" THEN "clear" ELSE "z7_open"
Enter(next) == IF next = "clear" THEN stages \cup {"clear"} ELSE stages

\* if not os.path.exists(self.epi_path_folder): os.makedirs(...), then the
\* call of _(), which returns at once when there is no page.
FolderMkdirs ==
  /\ pc = "folder_mk"
  /\ folder' = IF Exists(folder) THEN folder ELSE EmptyFolder
  /\ pc' = IF Len(temp_imgs) = 0 THEN FolderExit ELSE "folder_save"
  /\ stages' = IF Len(temp_imgs) = 0 THEN Enter(FolderExit) ELSE stages
  /\ index' = 1
  /\ attempt' = 1
  /\ UNCHANGED <<tmp, pdf, z7, pre, save_method, ord, other, url>>
  /\ UNCHANGED <<imgs_urls, imgs_token, img, imgs_path, temp_imgs, it,
                 progress, msgs, netlog>>

\* os.makedirs raises OSError: reported, saveToFolder returns.
FolderMkdirsFail ==
  /\ pc = "folder_mk"
  /\ ~Exists(folder)
  /\ msgs' = Append(msgs, "folder")
  /\ pc' = FolderExit
  /\ stages' = Enter(FolderExit)
  /\ index' = 1
  /\ attempt' = 1
  /\ FsUnchanged
  /\ UNCHANGED <<imgs_urls, imgs_token, img, imgs_path, temp_imgs, it,
                 progress, netlog>>

\* img.save(os.path.join(epi_path_folder, f"{str(index).zfill(3)}.jpg"))
FolderSaveOk ==
  /\ pc = "folder_save"
  /\ folder' = [folder EXCEPT !.files[index] = FullFile(temp_imgs[index])]
  /\ IF index < Len(temp_imgs)
     THEN /\ index' = index + 1
          /\ UNCHANGED <<pc, attempt, stages>>
     ELSE /\ index' = 1
          /\ attempt' = 1
          /\ pc' = FolderExit
          /\ stages' = Enter(FolderExit)
  /\ UNCHANGED <<tmp, pdf, z7, pre, save_method, ord, other, url>>
  /\ UNCHANGED <<imgs_urls, imgs_token, img, imgs_path, temp_imgs, it,
                 progress, msgs, netlog>>

\* The save of one image raises OSError, the file as it was or left
\* incomplete; a retry starts again at the first image.
FolderSaveFail ==
  /\ pc = "folder_save"
  /\ \E left \in {folder.files[index], PartialFile} :
       folder' = [folder EXCEPT !.files[index] = left]
  /\ Failed("OSError", "folder_save", "folder", FolderExit)
  /\ index' = 1
  /\ UNCHANGED <<tmp, pdf, z7, pre, save_method, ord, other, url>>
  /\ UNCHANGED <<imgs_urls, imgs_token, img, imgs_path, temp_imgs, it,
                 progress, netlog>>

\* --------------------------------------------------------------- saveTo7z
\* The files os.walk(epi_path_folder) has still to hand over (none when the
\* folder does not exist).
Pending == {k \in FileNames : k >= index /\ Exists(folder.files[k])}
Min(S) == CHOOSE k \in S : \A j \in S : k <= j

\* SevenZipFile(epi_path_7z, "w") creates or truncates the archive.
Z7Open ==
  /\ pc = "z7_open"
  /\ z7' = [st |-> "partial", entries |-> NoFiles]
  /\ pc' = "z7_write"
  /\ index' = 1
  /\ UNCHANGED <<tmp, pdf, folder, pre, save_method, ord, other, url>>
  /\ UNCHANGED <<attempt, imgs_urls, imgs_token, img, imgs_path, temp_imgs,
                 it, progress, msgs, netlog, stages>>

\* Opening the archive raises OSError.
Z7OpenFail ==
  /\ pc = "z7_open"
  /\ Failed("OSError", "z7_open", "7z", "clear")
  /\ FsUnchanged
  /\ UNCHANGED <<index, imgs_urls, imgs_token, img, imgs_path, temp_imgs, it,
                 progress, netlog>>

\* z.write(os.path.join(root, file), os.path.basename(...)) for the next file
\* of the folder.
Z7Write ==
  /\ pc = "z7_write"
  /\ Pending # {}
  /\ LET k == Min(Pending) IN
       /\ z7' = [z7 EXCEPT !.entries[k] = folder.files[k]]
       /\ index' = k + 1
  /\ UNCHANGED <<tmp, pdf, folder, pre, save_method, ord, other, url>>
  /\ UNCHANGED <<pc, attempt, imgs_urls, imgs_token, img, imgs_path,
                 temp_imgs, it, progress, msgs, netlog, stages>>

\* z.write raises OSError: the with block closes the archive with the
\* entries written so far.
Z7WriteFail ==
  /\ pc = "z7_write"
  /\ Pending # {}
  /\ Failed("OSError", "z7_open", "7z", "clear")
  /\ UNCHANGED <<tmp, pdf, folder, z7, pre, save_method, ord, other, url>>
  /\ UNCHANGED <<index, imgs_urls, imgs_token, img, imgs_path, temp_imgs, it,
                 progress, netlog>>

\* shutil.rmtree(epi_path_folder) after the last file, then the archive is
\* closed.
Z7Rmtree ==
  /\ pc = "z7_write"
  /\ Pending = {}
  /\ Exists(folder)
  /\ folder' = NoFolder
  /\ z7' = [z7 EXCEPT !.st = "full"]
  /\ pc' = "clear"
  /\ attempt' = 1
  /\ stages' = stages \cup {"clear"}
  /\ UNCHANGED <<tmp, pdf, pre, save_method, ord, other, url>>
  /\ UNCHANGED <<index, imgs_urls, imgs_token, img, imgs_path, temp_imgs, it,
                 progress, msgs, netlog>>

\* shutil.rmtree raises OSError: the folder does not exist, or a file or the
\* directory could not be deleted after some of the files were. The archive
\* is closed.
Z7RmtreeFail ==
  /\ pc = "z7_write"
  /\ Pending = {}
  /\ IF Exists(folder)
     THEN \E gone \in SUBSET {k \in FileNames : Exists(folder.files[k])} :
            folder' = [folder EXCEPT !.files =
                         [k \in FileNames |->
                            IF k \in gone THEN NoFile ELSE folder.files[k]]]
     ELSE UNCHANGED folder
  /\ z7' = [z7 EXCEPT !.st = "full"]
  /\ Failed("OSError", "z7_open", "7z", "clear")
  /\ UNCHANGED <<tmp, pdf, pre, save_method, ord, other, url>>
  /\ UNCHANGED <<index, imgs_urls, imgs_token, img, imgs_path, temp_imgs, it,
                 progress, netlog>>

\* --------------------------------------------------------- clearAfterSave
\* A faulty variant of ReversedIter: for img in imgs_path, the list iterated
\* from its first element on while elements are removed.
ForwardIter(list) == [first |-> 1, step |-> 1]
\* reversed(imgs_path): the iterator starts at the last position and steps
\* down; it ends when its position is outside the list.
ReversedIter(list) == [first |-> Len(list), step |-> -1]

\* A faulty variant of ListRemove: the first element of the list goes.
ListRemoveHead(list, x) == Tail(list)
\* list.remove(x): the list without the first occurrence of x.
ListRemove(list, x) ==
  LET k == Min({j \in 1..Len(list) : list[j] = x}) IN
  SubSeq(list, 1, k - 1) \o SubSeq(list, k + 1, Len(list))

\* A call of _(): the loop starts with a new iterator.
ClearBegin ==
  /\ pc = "clear"
  /\ it' = ReversedIter(imgs_path).first
  /\ pc' = "clear_loop"
  /\ FsUnchanged
  /\ UNCHANGED <<index, attempt, imgs_urls, imgs_token, img, imgs_path,
                 temp_imgs, progress, msgs, netlog, stages>>

\* os.remove(img) deletes the file; imgs_path.remove(img).
ClearStepOk ==
  /\ pc = "clear_loop"
  /\ it \in 1..Len(imgs_path)
  /\ Exists(tmp[imgs_path[it]])
  /\ tmp' = [tmp EXCEPT ![imgs_path[it]] = NoTmp]
  /\ imgs_path' = ListRemove(imgs_path, imgs_path[it])
  /\ it' = it + ReversedIter(imgs_path).step
  /\ UNCHANGED <<pdf, folder, z7, pre, save_method, ord, other, url>>
  /\ UNCHANGED <<pc, index, attempt, imgs_urls, imgs_token, img, temp_imgs,
                 progress, msgs, netlog, stages>>

\* os.remove raises OSError, or the file is still there after it: _() raises.
\* After the 5th failure it is reported and clearAfterSave returns.
ClearStepFail ==
  /\ pc = "clear_loop"
  /\ it \in 1..Len(imgs_path)
  /\ Failed("OSError", "clear", "clear", "done")
  /\ rm_fails' = [rm_fails EXCEPT ![imgs_path[it]] = @ + 1]
  /\ UNCHANGED <<tmp, pdf, folder, z7, pre, save_method, ord, url, outside>>
  /\ UNCHANGED <<index, imgs_urls, imgs_token, img, imgs_path, temp_imgs, it,
                 progress, netlog>>

\* The iterator is exhausted: _() and clearAfterSave return, and download.
ClearEnd ==
  /\ pc = "clear_loop"
  /\ it \notin 1..Len(imgs_path)
  /\ pc' = "done"
  /\ FsUnchanged
  /\ UNCHANGED <<index, attempt, imgs_urls, imgs_token, img, imgs_path,
                 temp_imgs, it, progress, msgs, netlog, stages>>

\* ------------------------------------------------------------------- Spec
\* One call of Episode.download of src/src/Episode.py.
Next ==
  \/ GetImageIndexOk \/ GetImageIndexRetry \/ GetImageIndexGiveUp
  \/ ImageTokenOk \/ ImageTokenRetry \/ ImageTokenGiveUp
  \/ DownloadInitFailed
  \/ FetchOk \/ FetchRetry \/ FetchGiveUp
  \/ WriteOk \/ WriteFail
  \/ OpenImages \/ OpenImagesFail
  \/ PdfSaveOk \/ PdfSaveFail \/ PdfReadOk \/ PdfReadFail
  \/ PdfWriteOk \/ PdfWriteFail
  \/ FolderMkdirs \/ FolderMkdirsFail \/ FolderSaveOk \/ FolderSaveFail
  \/ Z7Open \/ Z7OpenFail \/ Z7Write \/ Z7WriteFail \/ Z7Rmtree
  \/ Z7RmtreeFail
  \/ ClearBegin \/ ClearStepOk \/ ClearStepFail \/ ClearEnd

Spec == Init /\ [][Next]_vars

\* ================================================================ main.py
\* The older pipeline of src/main.py: Episode.download and downloadImg. It
\* knows the PDF format only, retries nothing but the checksum mismatch, and
\* handles no exception: a call that raises ends the thread.

\* url = f"{url}?token={token}"
GrowUrl(u, token) == u \o <<"?token=", token>>

CliInit ==
  /\ save_method = "PDF"
  /\ ord \in Ords
  /\ pc = "cli_exists"
  /\ index = 1
  /\ attempt = 1
  /\ imgs_urls = <<>>
  /\ imgs_token = [isNone |-> TRUE, val |-> <<>>]
  /\ url = <<>>
  /\ img = TransportError
  /\ imgs_path = <<>>
  /\ temp_imgs = <<>>
  /\ it = 0
  /\ tmp = [p \in TmpPaths |-> NoTmp]
  /\ pdf \in {NoPdf, OldPdf}
  /\ folder \in {NoFolder, EmptyFolder, OldFolder}
  /\ z7 \in {No7z, Old7z}
  /\ progress = <<>>
  /\ msgs = <<>>
  /\ netlog = {}
  /\ stages = {"init"}
  /\ pre = [pdf |-> pdf, folder |-> folder, z7 |-> z7]
  /\ rm_fails = [p \in TmpPaths |-> 0]
  /\ OutsideIdle

\* if os.path.exists(f'{self.savePath}/{self.title}.pdf'): return False
CliExists ==
  /\ pc = "cli_exists"
  /\ pc' = IF Exists(pdf) THEN "done" ELSE "cli_index"
  /\ FsUnchanged
  /\ UNCHANGED <<index, attempt, imgs_urls, imgs_token, img, imgs_path,
                 temp_imgs, it, progress, msgs, netlog, stages>>

\* The POST to GetImageIndex: res.ok gives the paths; else error and exit(1);
\* a transport error is not handled.
CliGetImageIndex ==
  /\ pc = "cli_index"
  /\ \/ \E paths \in PathLists : imgs_urls' = paths /\ pc' = "cli_token"
     \/ UNCHANGED imgs_urls /\ pc' \in {"exited", "crashed"}
  /\ netlog' = netlog \cup {"GetImageIndex"}
  /\ FsUnchanged
  /\ UNCHANGED <<index, attempt, imgs_token, img, imgs_path, temp_imgs, it,
                 progress, msgs, stages>>

\* The POST to ImageToken: res.ok starts the calls of downloadImg, one per
\* entry; else error and exit(1).
CliImageToken ==
  /\ pc = "cli_token"
  /\ \/ /\ imgs_token' = [isNone |-> FALSE, val |-> TokenResponse(imgs_urls)]
        /\ pc' = IF Len(imgs_urls) = 0 THEN "cli_open" ELSE "cli_fetch"
        /\ url' = IF Len(imgs_urls) = 0 THEN url ELSE <<imgs_urls[1]>>
        /\ stages' = stages \cup {"pages"}
     \/ /\ UNCHANGED <<imgs_token, url, stages>>
        /\ pc' \in {"exited", "crashed"}
  /\ index' = 1
  /\ attempt' = 1
  /\ netlog' = netlog \cup {"ImageToken"}
  /\ UNCHANGED <<tmp, pdf, folder, z7, pre, save_method, ord, other>>
  /\ UNCHANGED <<imgs_urls, img, imgs_path, temp_imgs, it, progress, msgs>>

\* One turn of downloadImg's while True: the url gets the token appended, is
\* fetched, and the loop is left when the Etag is the MD5 of the content.
\* The status is not looked at; a transport error is not handled. The loop
\* has no other exit: the turns are counted, and the growth of the url is
\* followed, up to MaxNetTries turns only.
CliFetch ==
  /\ pc = "cli_fetch"
  /\ url' = IF Len(url) < 1 + 2 * MaxNetTries
            THEN GrowUrl(url, imgs_token.val[index].token)
            ELSE url
  /\ \E res \in Responses(url') :
       /\ netlog' = netlog \cup {"GET"} \cup Seen(res)
       /\ IF res.err
          THEN pc' = "crashed" /\ UNCHANGED <<img, attempt>>
          ELSE /\ img' = res
               /\ IF res.etag = MD5(res.body)
                  THEN pc' = "cli_write" /\ UNCHANGED attempt
                  ELSE /\ attempt' = IF attempt < MaxNetTries
                                     THEN attempt + 1
                                     ELSE attempt
                       /\ UNCHANGED pc
  /\ UNCHANGED <<tmp, pdf, folder, z7, pre, save_method, ord, other>>
  /\ UNCHANGED <<index, imgs_urls, imgs_token, imgs_path, temp_imgs, it,
                 progress, msgs, stages>>

\* with open(pathToSave, 'wb') as f: f.write(file.content), and the next
\* element of the list of paths; a failing write is not handled.
CliWrite ==
  /\ pc = "cli_write"
  /\ \/ /\ tmp' = [tmp EXCEPT ![PathToSave(ord, index)] = FullTmp(img)]
        /\ imgs_path' = Append(imgs_path, PathToSave(ord, index))
        /\ IF index < NumPages
           THEN /\ index' = index + 1
                /\ url' = <<imgs_token.val[index + 1].url>>
                /\ pc' = "cli_fetch"
           ELSE /\ pc' = "cli_open"
                /\ UNCHANGED <<index, url>>
     \/ /\ \E left \in {tmp[PathToSave(ord, index)], PartialTmp(img)} :
             tmp' = [tmp EXCEPT ![PathToSave(ord, index)] = left]
        /\ pc' = "crashed"
        /\ UNCHANGED <<imgs_path, index, url>>
  /\ attempt' = 1
  /\ UNCHANGED <<pdf, folder, z7, pre, save_method, ord, other>>
  /\ UNCHANGED <<imgs_urls, imgs_token, img, temp_imgs, it, progress, msgs,
                 netlog, stages>>

\* tempImgs = [Image.open(x) for x in imgs], converted to RGB, and
\* tempImgs[0].save(..., save_all=True, append_images=tempImgs[1:]); a
\* failure (IndexError when there is no page) is not handled.
CliSave ==
  /\ pc = "cli_open"
  /\ temp_imgs' = [k \in 1..Len(imgs_path) |-> tmp[imgs_path[k]].body]
  /\ stages' = stages \cup {"save"}
  /\ \/ /\ Len(imgs_path) > 0
        /\ pdf' = [st |-> "nometa",
                   pages |-> <<Head(temp_imgs')>> \o Tail(temp_imgs')]
        /\ pc' = "cli_remove"
     \/ /\ \E left \in {pdf, [st |-> "partial", pages |-> <<>>]} : pdf' = left
        /\ Len(imgs_path) = 0 => pdf' = pdf
        /\ pc' = "crashed"
  /\ index' = 1
  /\ UNCHANGED <<tmp, folder, z7, pre, save_method, ord, other, url>>
  /\ UNCHANGED <<attempt, imgs_urls, imgs_token, img, imgs_path, it, progress,
                 msgs, netlog>>

\* for img in imgs: remove(img), then return True; a failing remove is not
\* handled.
CliRemove ==
  /\ pc = "cli_remove"
  /\ IF index > Len(imgs_path)
     THEN pc' = "done" /\ UNCHANGED <<tmp, index>>
     ELSE \/ /\ Exists(tmp[imgs_path[index]])
             /\ tmp' = [tmp EXCEPT ![imgs_path[index]] = NoTmp]
             /\ index' = index + 1
             /\ UNCHANGED pc
          \/ pc' = "crashed" /\ UNCHANGED <<tmp, index>>
  /\ UNCHANGED <<pdf, folder, z7, pre, save_method, ord, other, url>>
  /\ UNCHANGED <<attempt, imgs_urls, imgs_token, img, imgs_path, temp_imgs,
                 it, progress, msgs, netlog, stages>>

CliNext ==
  \/ CliExists \/ CliGetImageIndex \/ CliImageToken \/ CliFetch \/ CliWrite
  \/ CliSave \/ CliRemove

\* One call of Episode.download of src/main.py.
SpecCli == CliInit /\ [][CliNext]_vars

\* The same, in a thread that is not suspended for ever: while a step of
\* download is possible, one is taken. Nothing is assumed of the responses
\* the server gives.
SpecCliLive == SpecCli /\ WF_vars(CliNext)

\* ======================================================= Episode.__init__
\* The title of an episode, lines 54-80 of src/src/Episode.py. A string is
\* the sequence of its characters; "di" is U+7B2C, "hua" is U+8BDD, "te",
\* "bie", "pian" are U+7279 U+522B U+7BC7, and "middot" is U+00B7.

\* Largest number of chunks the two raw titles of an episode are made of.
MaxChunks == 4

\* \d
Digits == {"0", "1", "2"}
\* \s
Whitespace == {" "}
\* [\\/:*?"<>|]
Illegal == {"?"}
\* [0-9\-]
NumChars == Digits \cup {"-"}
Special == <<"te", "bie", "pian">>

\* The pieces raw titles are made of here.
Chunks ==
  {<<"0", "1", "2">>, <<"1", "2">>, <<"di">>, <<"hua">>, Special, <<" ">>,
   <<"?", ".">>, <<"-">>}
RECURSIVE Flat(_)
Flat(cs) == IF cs = <<>> THEN <<>> ELSE Head(cs) \o Flat(Tail(cs))
\* A raw episode: episode["short_title"] is made of the first j chunks of
\* cs and episode["title"] of the others.
Raw(cs, j) ==
  [short_title |-> Flat(SubSeq(cs, 1, j)),
   title |-> Flat(SubSeq(cs, j + 1, Len(cs)))]

\* The length of the longest run of characters of a class that starts at
\* position i: what a greedy class+ matches there.
RECURSIVE Run(_, _, _)
Run(s, i, class) ==
  IF i <= Len(s) /\ s[i] \in class THEN 1 + Run(s, i + 1, class) ELSE 0
\* The literal lit is at position i of s.
At(s, i, lit) ==
  /\ i + Len(lit) - 1 <= Len(s)
  /\ SubSeq(s, i, i + Len(lit) - 1) = lit

\* re.sub(r'[\\/:*?"<>|]', " ", s)
SubIllegal(s) == [i \in 1..Len(s) |-> IF s[i] \in Illegal THEN " " ELSE s[i]]
\* re.sub(r"\s+$", "", s)
RECURSIVE StripEnd(_)
StripEnd(s) ==
  IF Len(s) > 0 /\ s[Len(s)] \in Whitespace
  THEN StripEnd(SubSeq(s, 1, Len(s) - 1))
  ELSE s
\* re.sub(r"\.", "\u00b7", s)
SubDot(s) == [i \in 1..Len(s) |-> IF s[i] = "." THEN "middot" ELSE s[i]]
\* A faulty variant of Fix: the whitespace at the end is kept.
FixNoStrip(s) == SubDot(SubIllegal(s))
\* Lines 56-58, and 59-61: the three substitutions on one raw title.
Fix(s) == SubDot(StripEnd(SubIllegal(s)))

\* Lines 65-68: the short title alone, or the two with a space between.
Combined(short, long) ==
  IF short = long \/ long = <<>> THEN short ELSE short \o <<" ">> \o long

\* temp = re.search(r"^(\d+)\s+di(\d+)hua", self.title): whether it matched,
\* its two groups, and what the substitution of line 71 leaves of the
\* title (the match without its digits and whitespace, and what follows).
Search(t) ==
  LET d1 == Run(t, 1, Digits)
      sp == Run(t, d1 + 1, Whitespace)
      d2 == Run(t, d1 + sp + 2, Digits)
      found == /\ d1 > 0 /\ sp > 0 /\ d2 > 0
               /\ At(t, d1 + sp + 1, <<"di">>)
               /\ At(t, d1 + sp + d2 + 2, <<"hua">>)
  IN  [found |-> found,
       g1 |-> SubSeq(t, 1, d1),
       g2 |-> IF found THEN SubSeq(t, d1 + sp + 2, d1 + sp + d2 + 1) ELSE <<>>,
       rest |-> IF found THEN SubSeq(t, d1 + sp + 1, Len(t)) ELSE t]
\* temp[1] == temp[2]
SameGroups(g1, g2) == g1 = g2
\* Lines 69-71.
Collapse(t) ==
  LET temp == Search(t) IN
  IF temp.found /\ SameGroups(temp.g1, temp.g2) THEN temp.rest ELSE t
\* Lines 72-73: the first of two specials with whitespace between goes.
CollapseSpecial(t) ==
  LET sp == Run(t, Len(Special) + 1, Whitespace) IN
  IF At(t, 1, Special) /\ sp > 0 /\ At(t, Len(Special) + sp + 1, Special)
  THEN SubSeq(t, Len(Special) + sp + 1, Len(t))
  ELSE t
\* Lines 77-80: a title that begins with digits and hyphens gets "di" in
\* front, and "hua" after them unless it is there.
FixNumber(t) ==
  LET n == Run(t, 1, NumChars) IN
  IF n > 0 /\ At(t, n + 1, <<"hua">>) THEN <<"di">> \o t
  ELSE IF n > 0
  THEN <<"di">> \o SubSeq(t, 1, n) \o <<"hua">> \o SubSeq(t, n + 1, Len(t))
  ELSE t
\* self.title as lines 54-80 compute it from the two raw titles.
Title(short, long) ==
  FixNumber(CollapseSpecial(Collapse(Combined(Fix(short), Fix(long)))))

\* No download of an episode is running.
NotDownloading ==
  /\ save_method = "PDF"
  /\ ord \in Ords
  /\ index = 1
  /\ attempt = 1
  /\ imgs_urls = <<>>
  /\ imgs_token = [isNone |-> TRUE, val |-> <<>>]
  /\ url = <<>>
  /\ img = TransportError
  /\ imgs_path = <<>>
  /\ temp_imgs = <<>>
  /\ it = 0
  /\ tmp = [p \in TmpPaths |-> NoTmp]
  /\ pdf = NoPdf
  /\ folder = NoFolder
  /\ z7 = No7z
  /\ progress = <<>>
  /\ msgs = <<>>
  /\ netlog = {}
  /\ stages = {}
  /\ pre = [pdf |-> pdf, folder |-> folder, z7 |-> z7]
  /\ rm_fails = [p \in TmpPaths |-> 0]

\* Episode(...) is called with a raw episode, whose two titles are made of
\* at most MaxChunks chunks together.
TitleInit ==
  /\ pc = "construct"
  /\ \E k \in 0..MaxChunks : \E j \in 0..k : \E cs \in [1..k -> Chunks] :
       episode = Raw(cs, j)
  /\ title = <<>>
  /\ episodes = <<>>
  /\ batch = 0
  /\ epis = <<>>
  /\ nthreads = 0
  /\ joined = 0
  /\ alive = {}
  /\ starts = <<>>
  /\ epiTask = 0
  /\ NotDownloading

\* Episode.__init__: the raw titles are fixed in place and self.title is set.
EpisodeInit ==
  /\ pc = "construct"
  /\ episode' = [short_title |-> Fix(episode.short_title),
                 title |-> Fix(episode.title)]
  /\ title' = Title(episode.short_title, episode.title)
  /\ pc' = "constructed"
  /\ stages' = stages \cup {"init"}
  /\ UNCHANGED <<save_method, ord, index, attempt, imgs_urls, imgs_token, url,
                 img, imgs_path, temp_imgs, it, tmp, pdf, folder, z7, progress,
                 msgs, netlog, pre, rm_fails>>
  /\ UNCHANGED <<episodes, batch, epis, nthreads, joined, alive, starts,
                 epiTask>>

TitleNext == EpisodeInit

\* The construction of one Episode.
SpecTitle == TitleInit /\ [][TitleNext]_vars

\* ============================================================ Comic.fetch
\* Comic.fetch of src/main.py: the selected episodes are downloaded in
\* batches, a thread per episode. What a thread does is one call of
\* Episode.download (SpecCli); here only its end is seen.

\* self.threads = 16
threads == 16
\* Largest number of selected episodes.
MaxEpisodes == 17

\* math.ceil(len(data) / num)
NumBatches(data, num) == (Len(data) + num - 1) \div num
\* data[start:end]
Slice(data, start, end) == SubSeq(data, start + 1, end)
\* A faulty variant of splitThreads: a batch ends one element later.
splitThreadsOverlap(data, num, i) ==
  Slice(data, i * num,
        IF (i + 1) * num + 1 < Len(data) THEN (i + 1) * num + 1 ELSE Len(data))
\* splitThreads(data, num): what the generator yields at step i of its loop.
splitThreads(data, num, i) ==
  Slice(data, i * num,
        IF (i + 1) * num < Len(data) THEN (i + 1) * num ELSE Len(data))

\* fetch() is called on a Comic whose episodes are selected.
FetchInit ==
  /\ pc = "fetch_next"
  /\ \E n \in 0..MaxEpisodes : episodes = [e \in 1..n |-> e]
  /\ batch = 0
  /\ epis = <<>>
  /\ nthreads = 0
  /\ joined = 0
  /\ alive = {}
  /\ starts = [e \in 1..Len(episodes) |-> 0]
  /\ epiTask = 0
  /\ episode = [short_title |-> <<>>, title |-> <<>>]
  /\ title = <<>>
  /\ NotDownloading

DownloadUnchanged ==
  UNCHANGED <<save_method, ord, index, attempt, imgs_urls, imgs_token, url,
              img, imgs_path, temp_imgs, it, tmp, pdf, folder, z7, progress,
              msgs, netlog, stages, pre, rm_fails, episode, title>>

\* for epis in splitThreads(self.episodes, self.threads): the generator is
\* asked for the next batch, or is exhausted and fetch returns.
NextBatch ==
  /\ pc = "fetch_next"
  /\ IF batch < NumBatches(episodes, threads)
     THEN /\ epis' = splitThreads(episodes, threads, batch)
          /\ batch' = batch + 1
          /\ pc' = IF epis' = <<>> THEN "fetch_next" ELSE "fetch_start"
          /\ nthreads' = 0
          /\ joined' = 0
     ELSE /\ pc' = "fetch_done"
          /\ UNCHANGED <<epis, batch, nthreads, joined>>
  /\ UNCHANGED <<episodes, alive, starts, epiTask>>
  /\ DownloadUnchanged

\* t = threading.Thread(target=epi.download); t.start(); threads.append(t)
StartThread ==
  /\ pc = "fetch_start"
  /\ LET epi == epis[nthreads + 1] IN
       /\ alive' = alive \cup {epi}
       /\ starts' = [starts EXCEPT ![epi] = @ + 1]
  /\ nthreads' = nthreads + 1
  /\ pc' = IF nthreads' = Len(epis) THEN "fetch_join" ELSE pc
  /\ UNCHANGED <<episodes, batch, epis, joined, epiTask>>
  /\ DownloadUnchanged

\* epi.download returns (or raises, or calls exit): the thread ends.
ThreadEnds ==
  /\ \E epi \in alive : alive' = alive \ {epi}
  /\ UNCHANGED <<pc, episodes, batch, epis, nthreads, joined, starts, epiTask>>
  /\ DownloadUnchanged

\* t.join() returns for the next thread of the list, which has ended, and
\* progress.update(epiTask, advance=1).
JoinThread ==
  /\ pc = "fetch_join"
  /\ epis[joined + 1] \notin alive
  /\ joined' = joined + 1
  /\ epiTask' = epiTask + 1
  /\ pc' = IF joined' = Len(epis) THEN "fetch_next" ELSE pc
  /\ UNCHANGED <<episodes, batch, epis, nthreads, alive, starts>>
  /\ DownloadUnchanged

FetchNext == NextBatch \/ StartThread \/ ThreadEnds \/ JoinThread

\* One call of Comic.fetch.
SpecFetch == FetchInit /\ [][FetchNext]_vars

\* ================================================================= claims
Reported == {msgs[k] : k \in 1..Len(msgs)}
\* init_imgsList returned False.
MetadataFailed == "index" \in Reported \/ "token" \in Reported
\* downloadImg returned None for some page.
PageFailed == "fetch" \in Reported \/ "write" \in Reported
\* The assembly step of the configured save method exhausted its retries.
SaveFailed ==
  \/ save_method = "PDF" /\ "pdf" \in Reported
  \/ save_method = "Folder" /\ "folder" \in Reported
  \/ save_method = "7z" /\ "7z" \in Reported
\* The page of the k-th entry of the token response, as the server holds it.
PageOf(k) == Content(imgs_token.val[k].url)
Pages == [k \in 1..NumPages |-> PageOf(k)]

\* C1: bytes reach a temp file, and its path is returned, only from a
\* response whose Etag header equals the MD5 digest of its body.
IntegrityGate ==
  /\ pc \in {"write", "cli_write"} => img.etag = MD5(img.body)
  /\ \A p \in TmpPaths : Exists(tmp[p]) => tmp[p].etag = MD5(tmp[p].body)
  /\ pc \in {"fetch", "write", "open", "cli_fetch", "cli_write", "cli_open"} =>
       \A k \in 1..Len(imgs_path) :
         /\ tmp[imgs_path[k]].st = "full"
         /\ tmp[imgs_path[k]].etag = MD5(tmp[imgs_path[k]].body)

\* C1 witness: the only page was answered with a checksum mismatch first and
\* persisted after a retry.
IntegrityGateWitness ==
  /\ NumPages = 1
  /\ pc = "open"
  /\ "mismatch" \in netlog
  /\ tmp[PathToSave(ord, 1)].st = "full"
  /\ imgs_path = <<PathToSave(ord, 1)>>

\* C2 (as claimed): when the assembly step of an episode with pages failed
\* on every attempt, nothing is at the canonical output path after
\* download() returned that was not there before.
NoPartialOutput ==
  (pc = "done" /\ NumPages >= 1 /\ SaveFailed /\ ~Exists(pre_epi_path))
    => ~Exists(epi_path)

\* C3 (as claimed): when init_imgsList returned False, download() ends
\* without raising an exception.
MetadataFailureSkips == MetadataFailed => pc # "crashed"

\* C4 (as claimed): when the canonical output exists as download() starts,
\* the run makes no network call and leaves the output as it was.
IdempotentRun ==
  Exists(pre_epi_path) => (netlog = {} /\ epi_path = pre_epi_path)

\* C5 (as claimed): isDownloaded is true iff the canonical path of the
\* configured save method exists.
IsDownloadedCanonical == isDownloaded <=> Exists(epi_path)

\* C6: the pages are kept, handed to the assembler and written to the
\* output in the order of the token response, each once.
PageOrder ==
  /\ pc \in {"fetch", "write", "open", "cli_fetch", "cli_write", "cli_open"} =>
       imgs_path = [k \in 1..Len(imgs_path) |-> PathToSave(ord, k)]
  /\ "save" \in stages => temp_imgs = Pages
  /\ pdf.st \in {"nometa", "full"} => pdf.pages = Pages
  /\ (pc \in {"clear", "clear_loop", "done"} /\ "save" \in stages
        /\ save_method = "Folder" /\ ~SaveFailed) =>
       \A k \in 1..NumPages : folder.files[k] = FullFile(PageOf(k))

\* C6 witness: a document of at least two pages was written.
PageOrderWitness ==
  /\ pc = "done"
  /\ NumPages >= 2
  /\ pdf.st = "full"
  /\ Len(pdf.pages) = NumPages

\* C7: after a run in which every page was fetched, the assembly succeeded
\* and no deletion exhausted its retries, no temp file is left and the list
\* of temp paths clearAfterSave was given is empty.
CleanupInvariant ==
  (pc = "done" /\ "save" \in stages /\ ~SaveFailed /\ "clear" \notin Reported)
    => /\ \A p \in TmpPaths : ~Exists(tmp[p])
       /\ "clear" \in stages => imgs_path = <<>>

\* C7 witness: such a run of at least two pages, in which a deletion failed
\* and was retried.
CleanupInvariantWitness ==
  /\ pc = "done"
  /\ "save" \in stages
  /\ ~SaveFailed
  /\ "clear" \notin Reported
  /\ NumPages >= 2
  /\ attempt > 1

\* C8: the assembly step starts only when every page was fetched, verified
\* and persisted; when a page failed, it never starts and no output is
\* written.
AssemblyGated ==
  /\ "save" \in stages =>
       /\ ~imgs_token.isNone
       /\ ~PageFailed
       /\ temp_imgs = Pages
  /\ PageFailed =>
       /\ "save" \notin stages
       /\ pc \in {"clear", "clear_loop", "done"}
       /\ pdf = pre.pdf /\ folder = pre.folder /\ z7 = pre.z7

\* C8 witness: the second page failed after the first was persisted, and
\* download() returned.
AssemblyGatedWitness ==
  /\ pc = "done"
  /\ PageFailed
  /\ Len(progress) = 2
  /\ progress[2] = Sentinel

\* C9 (as claimed): when the assembly step of an episode with pages
\* exhausted its retries, the last progress event of the run is the sentinel.
AssemblyFailureReported ==
  (pc = "done" /\ NumPages >= 1 /\ SaveFailed) =>
    progress[Len(progress)] = Sentinel

\* C10 (as claimed): an archive a run of N >= 1 pages leaves at the .7z path
\* holds exactly the files 001.jpg..N.jpg of the run's N pages.
ArchiveComplete ==
  (pc = "done" /\ save_method = "7z" /\ NumPages >= 1
     /\ z7.st \in {"partial", "full"}) =>
    z7.entries = [k \in FileNames |->
                    IF k <= NumPages THEN FullFile(PageOf(k)) ELSE NoFile]

\* C11 (as claimed): the fetch of a page does not go on for ever: whatever
\* the responses are, downloadImg leaves its fetch loop.
PageFetchTerminates ==
  (pc \in {"fetch", "cli_fetch"}) ~> (pc \notin {"fetch", "cli_fetch"})

\* C12 (as claimed): the title of an episode, given again as the short
\* title of an episode with an empty title, comes out as it is.
TitleIdempotent == pc = "constructed" => Title(title, <<>>) = title

\* C13 (as claimed): when the combined title is digits, whitespace, "di",
\* digits, "hua" and the two groups of digits are the same number (the same
\* digits once leading zeros are dropped), the title is the combined title
\* from "di" on; when they are different numbers it is not.
DuplicateNumberCollapsed ==
  pc = "constructed" =>
    LET temp == Search(Combined(episode.short_title, episode.title))
        number(ds) == SubSeq(ds, Run(ds, 1, {"0"}) + 1, Len(ds))
    IN  temp.found =>
          IF number(temp.g1) = number(temp.g2)
          THEN title = temp.rest
          ELSE title # temp.rest

\* C14 (as claimed): when a page of an episode failed and download()
\* returned with no cleanup failure reported, no temp file of the run is
\* left, the file of the failed page included.
AbortLeavesNoTemp ==
  (pc = "done" /\ PageFailed /\ "clear" \notin Reported) =>
    \A p \in TmpPaths : ~Exists(tmp[p])

\* C15 (as claimed): a run that entered the assembly stage and ended has
\* called clearAfterSave, however the assembly ended.
CleanupFollowsAssembly ==
  ("save" \in stages /\ NumPages >= 1 /\ pc \in {"done", "crashed"}) =>
    "clear" \in stages

\* C16 (as claimed): when clearAfterSave reports a cleanup failure, the
\* deletion of some one file failed 5 times.
PerFileBudget ==
  "clear" \in Reported => \E p \in TmpPaths : rm_fails[p] >= MaxAttempts

\* C17 (as claimed): the url a GET for a page was made with is
\* '{url}?token={token}' of the page's entry of the token response, at the
\* first attempt and at every later one.
RequestUrlStable ==
  /\ pc \in {"fetch", "write"} => url = ImgUrl(imgs_token.val[index])
  /\ (pc \in {"cli_fetch", "cli_write"} /\ "GET" \in netlog /\ Len(url) > 1) =>
       url = ImgUrl(imgs_token.val[index])

\* C18: while downloadImg writes the temp file of a page, at most 5
\* attempts are made and no network call; a failed attempt before the 5th
\* is followed by another write of the same bytes; the 5th failure is
\* reported and downloadImg returns None (download emits the sentinel and
\* keeps no path); the page loop goes on only with the file fully written.
WriteBounded ==
  [][pc = "write" =>
       /\ attempt \in 1..MaxAttempts
       /\ netlog' = netlog
       /\ pc' \in {"write", "fetch", "open", "clear"}
       /\ pc' = "write" =>
            attempt' = attempt + 1 /\ index' = index /\ img' = img
       /\ pc' \in {"fetch", "open"} =>
            /\ tmp'[PathToSave(ord, index)] = FullTmp(img)
            /\ imgs_path' = Append(imgs_path, PathToSave(ord, index))
       /\ pc' = "fetch" => index' = index + 1
       /\ pc' = "clear" =>
            /\ attempt = MaxAttempts
            /\ tmp'[PathToSave(ord, index)].st # "full"
            /\ msgs' = Append(msgs, "write")
            /\ progress' = Append(progress, Sentinel)
            /\ imgs_path' = imgs_path
  ]_vars

\* C18 witness: the write of the second page failed 5 times, the last time
\* leaving the file incomplete, after the first page was persisted.
WriteBoundedWitness ==
  /\ pc = "clear"
  /\ msgs = <<"write">>
  /\ index = 2
  /\ imgs_path = <<PathToSave(ord, 1)>>
  /\ tmp[PathToSave(ord, 2)].st = "partial"

\* C19: ImageToken is posted only after GetImageIndex succeeded; the token
\* response has one entry per path GetImageIndex returned, in their order;
\* page i is requested with the url and the token of the i-th entry and its
\* file holds the bytes of the i-th path; a run that reaches the assembly
\* has fetched as many pages as GetImageIndex returned paths.
MetadataAligned ==
  /\ "ImageToken" \in netlog =>
       "GetImageIndex" \in netlog /\ "index" \notin Reported
  /\ ~imgs_token.isNone =>
       /\ NumPages = Len(imgs_urls)
       /\ \A i \in 1..NumPages :
            imgs_token.val[i] = [url |-> imgs_urls[i],
                                 token |-> TokenOf(imgs_urls[i])]
  /\ pc \in {"fetch", "write"} =>
       /\ ~imgs_token.isNone
       /\ index \in 1..Len(imgs_urls)
       /\ url = <<imgs_urls[index], "?token=", TokenOf(imgs_urls[index])>>
       /\ Len(imgs_path) = index - 1
       /\ \A i \in 1..Len(imgs_path) :
            tmp[imgs_path[i]] =
              [st |-> "full", body |-> Content(imgs_urls[i]),
               etag |-> MD5(Content(imgs_urls[i]))]
  /\ pc = "write" => img.body = Content(imgs_urls[index])
  /\ "save" \in stages =>
       temp_imgs = [i \in 1..Len(imgs_urls) |-> Content(imgs_urls[i])]

\* C19 witness: GetImageIndex returned two paths in descending order, and
\* the second page is being written after the first was persisted.
MetadataAlignedWitness ==
  /\ imgs_urls = Descending(2)
  /\ pc = "write"
  /\ index = 2
  /\ Exists(tmp[PathToSave(ord, 1)])

\* C20: at most 16 download threads run at a time; a thread is started
\* once for an episode, in the order of the list; the threads that run are
\* threads of the batch at hand, so none of a batch is started before all of
\* the batch before it have ended; fetch returns when every episode was
\* started and every thread has ended; the batches of splitThreads have 1 to
\* 16 elements and are, one after the other, the list of episodes.
BatchBarrier ==
  LET done == IF batch = 0 THEN 0 ELSE (batch - 1) * threads + nthreads
      batches == [i \in 1..NumBatches(episodes, threads) |->
                    splitThreads(episodes, threads, i - 1)]
  IN  /\ Cardinality(alive) <= threads
      /\ \A e \in 1..Len(episodes) :
           starts[episodes[e]] = IF e <= done THEN 1 ELSE 0
      /\ alive \subseteq {epis[k] : k \in 1..nthreads}
      /\ pc = "fetch_next" => alive = {}
      /\ pc = "fetch_done" =>
           /\ alive = {}
           /\ \A e \in 1..Len(episodes) : starts[episodes[e]] = 1
           /\ epiTask = Len(episodes)
      /\ \A i \in 1..Len(batches) : Len(batches[i]) \in 1..threads
      /\ Flat(batches) = episodes

\* C20 witness: more episodes than threads, and a thread of the second
\* batch runs while fetch waits for it.
BatchBarrierWitness ==
  /\ Len(episodes) > threads
  /\ batch = 2
  /\ pc = "fetch_join"
  /\ alive # {}

\* C24: the title of an episode holds no character of [\\/:*?"<>|] and no
\* '.', does not end with whitespace, and does not begin with a digit or a
\* hyphen.
TitleShape ==
  pc = "constructed" =>
    /\ \A i \in 1..Len(title) : title[i] \notin Illegal \cup {"."}
    /\ title # <<>> =>
         /\ title[Len(title)] \notin Whitespace
         /\ title[1] \notin NumChars

\* C24 witness: a title made from raw titles that began with a hyphen and
\* held a '.' (and an illegal character before it).
TitleShapeWitness ==
  /\ pc = "constructed"
  /\ Len(title) >= 5
  /\ SubSeq(title, 1, 3) = <<"di", "-", "hua">>
  /\ title[Len(title)] = "middot"
  /\ title[Len(title) - 1] = " "

\* C21: a step of clearAfterSave leaves the three outputs as they are; the
\* only file it changes is the temp file at hand, which it deletes; a path
\* leaves the list only when its file is gone, and none enters it; a
\* failure is reported only when the 5th attempt failed, once, and then
\* download returns.
CleanupNonFatal ==
  [][(pc \in {"clear", "clear_loop"}) =>
       /\ <<pdf', folder', z7'>> = <<pdf, folder, z7>>
       /\ pc' \in {"clear", "clear_loop", "done"}
       /\ \A p \in TmpPaths :
            tmp'[p] # tmp[p] =>
              /\ pc = "clear_loop"
              /\ it \in 1..Len(imgs_path)
              /\ p = imgs_path[it]
              /\ tmp'[p] = NoTmp
       /\ \A k \in 1..Len(imgs_path) :
            \/ \E j \in 1..Len(imgs_path') : imgs_path'[j] = imgs_path[k]
            \/ ~Exists(tmp'[imgs_path[k]])
       /\ \A j \in 1..Len(imgs_path') :
            \E k \in 1..Len(imgs_path) : imgs_path[k] = imgs_path'[j]
       /\ msgs' # msgs =>
            /\ msgs' = Append(msgs, "clear")
            /\ "clear" \notin Reported
            /\ attempt = MaxAttempts
            /\ pc' \notin {"clear", "clear_loop"}
  ]_vars

\* C21 witness: the document of a two-page episode was written, the file
\* of the second page was deleted, and the deletion of the first failed
\* until the failure was reported and download returned.
CleanupNonFatalWitness ==
  /\ pc = "done"
  /\ msgs = <<"clear">>
  /\ pdf.st = "full"
  /\ NumPages = 2
  /\ imgs_path = <<PathToSave(ord, 1)>>
  /\ Exists(tmp[PathToSave(ord, 1)])
  /\ ~Exists(tmp[PathToSave(ord, 2)])

\* C22 (as claimed): after a run of an episode with pages that ended with
\* a failure reported, isDownloaded() is what it was before the run.
FailedRunNotComplete ==
  (pc \in {"done", "crashed"} /\ NumPages >= 1
     /\ (MetadataFailed \/ PageFailed \/ SaveFailed)) =>
    (isDownloaded <=>
       (Exists(pre.pdf) \/ Exists(pre.folder) \/ Exists(pre.z7)))

\* C23: the progress events of one run. Each step of download emits at most
\* one event, and none after a sentinel: the sentinel is emitted at most
\* once, and after it no event is emitted, no request is made and no response
\* is taken. The i-th event that is not the sentinel carries the integer part
\* of i / N * 100 (N pages), is within 0..100, is not less than the one
\* before it, is 100 exactly for i = N, and is emitted when the temp file of
\* page i holds the whole verified body.
ProgressProtocol ==
  [][/\ (Len(progress) >= 1 /\ progress[Len(progress)] = Sentinel) =>
          /\ progress' = progress
          /\ pc' \notin {"index", "token", "init_failed", "fetch", "write"}
          /\ img' = img
          /\ netlog' = netlog
     /\ progress' # progress =>
          LET i == Len(progress')
              e == progress'[i]
          IN /\ progress' = Append(progress, e)
             /\ e # Sentinel =>
                  /\ i \in 1..NumPages
                  /\ e * NumPages <= i * 100
                  /\ i * 100 < (e + 1) * NumPages
                  /\ e \in 0..100
                  /\ (e = 100) <=> (i = NumPages)
                  /\ i > 1 => progress[i - 1] <= e
                  /\ tmp'[PathToSave(ord, i)].st = "full"
                  /\ tmp'[PathToSave(ord, i)].body = PageOf(i)
                  /\ imgs_path' = Append(imgs_path, PathToSave(ord, i))
    ]_vars

\* C23 witness: the first page was persisted and announced with 50, the second
\* failed, the sentinel followed, and download() returned.
ProgressProtocolWitness ==
  /\ pc = "done"
  /\ NumPages = 2
  /\ progress = <<50, Sentinel>>
  /\ "write" \in Reported
  /\ "GET" \in netlog

\* ------------------------------------------------ two concurrent downloads
\* Two Episodes of one comic whose download() calls run concurrently, as the
\* threads of one batch do: every field of self is held per episode, and
\* self.save_path, the save directory of the comic, is the same for both.
Eps == {1, 2}
\* episode["ord"] of the two episodes.
PairOrd(e) == IF e = 1 THEN 1 ELSE 12
PairPaths == {PathToSave(PairOrd(e), i) : e \in Eps, i \in 1..MaxPages}
\* The remote path of page i of episode e: no two pages share their bytes.
PairRemote(e, i) == 10 * (e - 1) + i
\* The raw titles an episode may come with.
PairRaw ==
  {[short_title |-> <<>>, title |-> <<>>],
   [short_title |-> <<"1">>, title |-> <<>>],
   [short_title |-> <<"2">>, title |-> <<>>]}
\* The temp paths an episode may write: {ord}_{index}.jpg for its own ord.
Owned(e) == {PathToSave(ord[e], i) : i \in 1..MaxPages}
\* self.epi_path_folder = os.path.join(self.save_path, f"{self.title}") is
\* the save directory itself when the title is empty.
FolderIsSavePath(e) == title[e] = <<>>
\* The temp files os.walk(self.epi_path_folder) finds, and shutil.rmtree
\* deletes: those of the save directory when the folder is the save
\* directory, none when it is a folder of its own.
Walked(e) ==
  IF FolderIsSavePath(e) THEN {p \in PairPaths : Exists(tmp[p])} ELSE {}
No7zOf == [st |-> "absent", entries |-> <<>>, temps |-> {}]

\* The fields of the Episodes and the save directory.
pairVars == <<pc, index, attempt, imgs_token, img, imgs_path, temp_imgs, tmp,
              pdf, folder, z7, progress, msgs>>
\* What the two downloads leave alone.
pairRest == <<save_method, ord, title, imgs_urls, url, it, netlog, stages,
              pre, rm_fails, episode, episodes, batch, epis, nthreads, joined,
              alive, starts, epiTask>>

\* Both Episodes are constructed, with distinct titles, and their threads
\* are started over a save directory without temp files.
PairInit ==
  /\ save_method \in SaveMethods
  /\ ord = [e \in Eps |-> PairOrd(e)]
  /\ \E r \in [Eps -> PairRaw] :
       /\ title = [e \in Eps |-> Title(r[e].short_title, r[e].title)]
       /\ title[1] # title[2]
  /\ pc = [e \in Eps |-> "index"]
  /\ index = [e \in Eps |-> 1]
  /\ attempt = [e \in Eps |-> 1]
  /\ imgs_token = [e \in Eps |-> [isNone |-> TRUE, val |-> <<>>]]
  /\ img = [e \in Eps |-> TransportError]
  /\ imgs_path = [e \in Eps |-> <<>>]
  /\ temp_imgs = [e \in Eps |-> <<>>]
  /\ tmp = [p \in PairPaths |-> NoTmp]
  /\ pdf = [e \in Eps |-> NoPdf]
  /\ folder = [e \in Eps |-> NoFolder]
  /\ z7 = [e \in Eps |-> No7zOf]
  /\ progress = [e \in Eps |-> <<>>]
  /\ msgs = [e \in Eps |-> <<>>]
  /\ imgs_urls = <<>>
  /\ url = <<>>
  /\ it = 0
  /\ netlog = {}
  /\ stages = {}
  /\ pre = [pdf |-> NoPdf, folder |-> NoFolder, z7 |-> No7z]
  /\ rm_fails = [p \in PairPaths |-> 0]
  /\ episode = [short_title |-> <<>>, title |-> <<>>]
  /\ episodes = <<>>
  /\ batch = 0
  /\ epis = <<>>
  /\ nthreads = 0
  /\ joined = 0
  /\ alive = {}
  /\ starts = <<>>
  /\ epiTask = 0

\* init_imgsList of episode e: it returns True with self.imgs_token set to
\* the entries of the episode's pages, or it reports, returns False, the
\* sentinel is emitted and enumerate(None) ends the thread.
PairInitImgs(e) ==
  /\ pc[e] = "index"
  /\ \/ \E n \in 1..MaxPages :
          /\ imgs_token' = [imgs_token EXCEPT ![e] =
               [isNone |-> FALSE,
                val |-> TokenResponse([i \in 1..n |-> PairRemote(e, i)])]]
          /\ pc' = [pc EXCEPT ![e] = "fetch"]
          /\ UNCHANGED <<progress, msgs>>
     \/ /\ msgs' = [msgs EXCEPT ![e] = Append(@, "token")]
        /\ progress' = [progress EXCEPT ![e] = Append(@, Sentinel)]
        /\ pc' = [pc EXCEPT ![e] = "crashed"]
        /\ UNCHANGED imgs_token
  /\ UNCHANGED <<index, attempt, img, imgs_path, temp_imgs, tmp, pdf, folder,
                 z7>>
  /\ UNCHANGED pairRest

\* The loop body of download of episode e after downloadImg returned.
PairLooped(e, img_path) ==
  LET r == LoopStep(img_path, index[e], Len(imgs_token[e].val)) IN
  /\ pc' = [pc EXCEPT ![e] = r.pc]
  /\ progress' = [progress EXCEPT ![e] = Append(@, r.emit)]
  /\ imgs_path' = [imgs_path EXCEPT ![e] =
                     IF r.keep THEN AppendPath(@, img_path) ELSE @]
  /\ index' = [index EXCEPT ![e] = IF r.pc = "fetch" THEN @ + 1 ELSE @]
  /\ attempt' = [attempt EXCEPT ![e] = 1]

\* downloadImg of episode e, the GET: an accepted response becomes img; a
\* response that is not accepted is asked for again (nothing changes) until
\* the deadline has passed, when the failure is reported and None returned.
PairFetch(e) ==
  /\ pc[e] = "fetch"
  /\ \E res \in Responses(ImgUrl(imgs_token[e].val[index[e]])) :
       IF Accepted(res)
       THEN /\ img' = [img EXCEPT ![e] = res]
            /\ pc' = [pc EXCEPT ![e] = "write"]
            /\ UNCHANGED <<index, attempt, imgs_path, progress, msgs>>
       ELSE /\ msgs' = [msgs EXCEPT ![e] = Append(@, "fetch")]
            /\ PairLooped(e, NonePath)
            /\ UNCHANGED img
  /\ UNCHANGED <<imgs_token, temp_imgs, tmp, pdf, folder, z7>>
  /\ UNCHANGED pairRest

\* downloadImg of episode e, the write of path_to_save: it succeeds and the
\* path is returned, or raises OSError with the file as it was or created
\* and incomplete; after the 5th failure it is reported and None returned.
PairWrite(e) ==
  /\ pc[e] = "write"
  /\ LET path_to_save == PathToSave(ord[e], index[e]) IN
       \/ /\ tmp' = [tmp EXCEPT ![path_to_save] = FullTmp(img[e])]
          /\ PairLooped(e, path_to_save)
          /\ UNCHANGED msgs
       \/ /\ \E left \in {tmp[path_to_save], PartialTmp(img[e])} :
               tmp' = [tmp EXCEPT ![path_to_save] = left]
          /\ IF ShouldRetry(attempt[e])
             THEN /\ attempt' = [attempt EXCEPT ![e] = @ + 1]
                  /\ UNCHANGED <<pc, index, imgs_path, progress, msgs>>
             ELSE /\ msgs' = [msgs EXCEPT ![e] = Append(@, "write")]
                  /\ PairLooped(e, NonePath)
  /\ UNCHANGED <<imgs_token, img, temp_imgs, pdf, folder, z7>>
  /\ UNCHANGED pairRest

\* temp_imgs = [Image.open(x) for x in imgs_path] of episode e.
PairOpen(e) ==
  /\ pc[e] = "open"
  /\ temp_imgs' = [temp_imgs EXCEPT ![e] =
                     [k \in 1..Len(imgs_path[e]) |-> tmp[imgs_path[e][k]].body]]
  /\ pc' = [pc EXCEPT ![e] = "save"]
  /\ UNCHANGED <<index, attempt, imgs_token, img, imgs_path, tmp, pdf, folder,
                 z7, progress, msgs>>
  /\ UNCHANGED pairRest

\* The save method of episode e succeeds. saveToPDF writes epi_path_pdf;
\* saveToFolder writes 001.jpg.. into epi_path_folder; saveTo7z calls
\* saveToFolder, adds every file os.walk finds under epi_path_folder to the
\* archive and deletes the tree: the folder of the episode, or the save
\* directory with the archives in it. temps records the temp files that
\* were added to the archive.
PairSave(e) ==
  /\ pc[e] = "save"
  /\ IF save_method = "PDF"
     THEN /\ pdf' = [pdf EXCEPT ![e] = [st |-> "full", pages |-> temp_imgs[e]]]
          /\ UNCHANGED <<folder, z7, tmp>>
     ELSE IF save_method = "Folder"
     THEN /\ folder' = [folder EXCEPT ![e] =
                          [st |-> "dir", files |-> temp_imgs[e]]]
          /\ UNCHANGED <<pdf, z7, tmp>>
     ELSE /\ IF FolderIsSavePath(e)
             THEN /\ z7' = [o \in Eps |->
                             [st |-> "absent", entries |-> <<>>,
                              temps |-> IF o = e THEN Walked(e)
                                        ELSE z7[o].temps]]
                  /\ folder' = [o \in Eps |-> NoFolder]
             ELSE /\ z7' = [z7 EXCEPT ![e] =
                             [st |-> "full", entries |-> temp_imgs[e],
                              temps |-> {}]]
                  /\ folder' = [folder EXCEPT ![e] = NoFolder]
          /\ tmp' = [p \in PairPaths |->
                       IF p \in Walked(e) THEN NoTmp ELSE tmp[p]]
          /\ UNCHANGED pdf
  /\ pc' = [pc EXCEPT ![e] = "clear"]
  /\ UNCHANGED <<index, attempt, imgs_token, img, imgs_path, temp_imgs,
                 progress, msgs>>
  /\ UNCHANGED pairRest

\* The save method of episode e raises OSError on each of its 5 attempts and
\* reports: the output is left incomplete, and of the tree saveTo7z deletes
\* some files may be gone.
PairSaveFail(e) ==
  /\ pc[e] = "save"
  /\ IF save_method = "PDF"
     THEN /\ pdf' = [pdf EXCEPT ![e] = [st |-> "partial", pages |-> <<>>]]
          /\ msgs' = [msgs EXCEPT ![e] = Append(@, "pdf")]
          /\ UNCHANGED <<folder, z7, tmp>>
     ELSE IF save_method = "Folder"
     THEN /\ folder' = [folder EXCEPT ![e] = [st |-> "dir", files |-> <<>>]]
          /\ msgs' = [msgs EXCEPT ![e] = Append(@, "folder")]
          /\ UNCHANGED <<pdf, z7, tmp>>
     ELSE /\ folder' = [folder EXCEPT ![e] =
                          [st |-> "dir", files |-> temp_imgs[e]]]
          /\ \E gone \in SUBSET Walked(e) :
               /\ z7' = [z7 EXCEPT ![e] = [st |-> "partial", entries |-> <<>>,
                                           temps |-> gone]]
               /\ tmp' = [p \in PairPaths |->
                            IF p \in gone THEN NoTmp ELSE tmp[p]]
          /\ msgs' = [msgs EXCEPT ![e] = Append(@, "7z")]
          /\ UNCHANGED pdf
  /\ pc' = [pc EXCEPT ![e] = "clear"]
  /\ UNCHANGED <<index, attempt, imgs_token, img, imgs_path, temp_imgs,
                 progress>>
  /\ UNCHANGED pairRest

\* clearAfterSave of episode e, one pass of `for img in reversed(imgs_path)`:
\* os.remove(img) deletes the file and the path leaves the list; or it
\* raises OSError (the file is kept, or is not there), which after the 5th
\* attempt is reported; with an empty list clearAfterSave returns.
PairClear(e) ==
  /\ pc[e] = "clear"
  /\ IF imgs_path[e] = <<>>
     THEN /\ pc' = [pc EXCEPT ![e] = "done"]
          /\ UNCHANGED <<attempt, imgs_path, tmp, msgs>>
     ELSE LET p == imgs_path[e][Len(imgs_path[e])] IN
          \/ /\ Exists(tmp[p])
             /\ tmp' = [tmp EXCEPT ![p] = NoTmp]
             /\ imgs_path' = [imgs_path EXCEPT ![e] = ListRemove(@, p)]
             /\ UNCHANGED <<pc, attempt, msgs>>
          \/ /\ IF ShouldRetry(attempt[e])
                THEN /\ attempt' = [attempt EXCEPT ![e] = @ + 1]
                     /\ UNCHANGED <<pc, msgs>>
                ELSE /\ msgs' = [msgs EXCEPT ![e] = Append(@, "clear")]
                     /\ pc' = [pc EXCEPT ![e] = "done"]
                     /\ UNCHANGED attempt
             /\ UNCHANGED <<imgs_path, tmp>>
  /\ UNCHANGED <<index, imgs_token, img, temp_imgs, pdf, folder, z7, progress>>
  /\ UNCHANGED pairRest

PairNext ==
  \E e \in Eps :
    \/ PairInitImgs(e)
    \/ PairFetch(e)
    \/ PairWrite(e)
    \/ PairOpen(e)
    \/ PairSave(e)
    \/ PairSaveFail(e)
    \/ PairClear(e)

\* Two concurrent calls of Episode.download.
SpecPair == PairInit /\ [][PairNext]_vars

\* The fields of episode e: a step that changes none of them is not a step
\* of e.
Local(e) ==
  <<pc[e], index[e], attempt[e], imgs_token[e], img[e], imgs_path[e],
    temp_imgs[e], progress[e], msgs[e]>>

\* C25 (as claimed): the temp paths of two episodes with distinct ordinals
\* are distinct, and in no step does an episode write, delete or read a temp
\* file of the other: a temp file of an episode changes only in that
\* episode's own steps, the paths an episode opens and removes are its own,
\* and no temp file of the other episode enters its archive.
NoTempCollision ==
  [][\A e \in Eps :
       /\ \A o \in Eps \ {e} : Owned(e) \cap Owned(o) = {}
       /\ \A k \in 1..Len(imgs_path'[e]) : imgs_path'[e][k] \in Owned(e)
       /\ Local(e)' = Local(e) =>
            \A p \in Owned(e) : tmp'[p] = tmp[p]
       /\ \A o \in Eps \ {e} : z7'[o].temps \cap Owned(e) = {}
    ]_vars

====
